---- MODULE Spec2Model ----
(***************************************************************************)
(* Model of the knowledge-graph memory server (src/index.ts).  The file    *)
(* holds two KnowledgeGraphManager classes: the vector-enabled one (lines  *)
(* 50-502, sqlite-vec + fastembed) and the lexical-only one (lines         *)
(* 928-1233).  Both keep their data in the SQLite tables `entities` and    *)
(* `relations`; the vector-enabled one also keeps `entities_vec` and       *)
(* starts detached embedding tasks.                                        *)
(*                                                                         *)
(* A string is a sequence of one-character strings, so that join("|||")    *)
(* and split("|||") are computed the way JavaScript computes them.         *)
(***************************************************************************)
EXTENDS Integers, Sequences, FiniteSets

VARIABLES
    mode,          \* which of the two managers runs: "vector" or "lexical"
    entities,      \* table entities, rows in rowid order
    relations,     \* table relations, rows in rowid order
    entities_vec,  \* virtual table entities_vec: entity_id -> embedding
    nextId,        \* next AUTOINCREMENT id of table entities
    tasks,         \* detached embedding tasks suspended at their await
    last,          \* the last call (name, arguments, result, tables before it) or the
                   \* last failure a task has logged, until it is handed out
    deleted,       \* ids of the rows deleteEntities has removed
    enriched,      \* ids whose embedding task has completed without error
    calls          \* number of writing calls the request handler has dispatched

vars == <<mode, entities, relations, entities_vec, nextId, tasks, last, deleted, enriched, calls>>

\* no call is in progress: the last result has been handed to the client
Idle == [op |-> "none"]

----------------------------------------------------------------------------
(* Bounds of the model                                                     *)

MaxCalls == 3     \* writing calls in one behaviour

----------------------------------------------------------------------------
(* Strings                                                                 *)

sA == <<"A">>
sB == <<"B">>
sX == <<"x">>
sY == <<"y">>
sEmpty == <<>>
sXdY == <<"x", "|", "|", "|", "y">>
sT == <<"t">>
sU == <<"u">>
sKnows == <<"k">>

DELIM == <<"|", "|", "|">>
SPACE == <<" ">>

IsPrefix(p, s) == Len(p) <= Len(s) /\ SubSeq(s, 1, Len(p)) = p

\* Array.prototype.join
RECURSIVE Join(_, _)
Join(list, sep) ==
    IF list = <<>> THEN <<>>
    ELSE IF Len(list) = 1 THEN list[1]
    ELSE list[1] \o sep \o Join(Tail(list), sep)

\* String.prototype.split with a non-empty separator: left to right, the
\* separator is cut at its first occurrence; "" splits into [""].
RECURSIVE SplitAcc(_, _, _)
SplitAcc(s, sep, cur) ==
    IF s = <<>> THEN <<cur>>
    ELSE IF IsPrefix(sep, s)
         THEN <<cur>> \o SplitAcc(SubSeq(s, Len(sep) + 1, Len(s)), sep, <<>>)
         ELSE SplitAcc(Tail(s), sep, Append(cur, Head(s)))

Split(s, sep) == SplitAcc(s, sep, <<>>)

\* entity.observations.join("|||")
EncodeObservations(list) == Join(list, DELIM)

\* e.observations ? e.observations.split("|||") : []
DecodeObservations(s) == IF s = <<>> THEN <<>> ELSE Split(s, DELIM)

\* Array.prototype.includes
Includes(list, x) == \E i \in 1..Len(list) : list[i] = x

\* Array.prototype.filter keeping the elements NOT in `other`
RECURSIVE FilterNotIn(_, _)
FilterNotIn(list, other) ==
    IF list = <<>> THEN <<>>
    ELSE IF Includes(other, Head(list))
         THEN FilterNotIn(Tail(list), other)
         ELSE <<Head(list)>> \o FilterNotIn(Tail(list), other)

Range(f) == {f[i] : i \in DOMAIN f}

SeqsUpTo(S, n) == UNION {[1..k -> S] : k \in 0..n}

----------------------------------------------------------------------------
(* Embeddings                                                              *)

\* new Float32Array(768): the placeholder stored at insertion
Placeholder == [zero |-> TRUE, of |-> <<>>]

\* generateEmbedding(text): the model is deterministic; the vector is
\* identified by the text it was computed from.
generateEmbedding(text) == [zero |-> FALSE, of |-> text]

\* the lexical-only table has no embedding column
NoColumn == [zero |-> TRUE, of |-> <<"-">>]

\* `${name} ${observations.join(" ")}`
CombinedText(name, observations) == name \o SPACE \o Join(observations, SPACE)

----------------------------------------------------------------------------
(* Reads                                                                   *)

EntityOfRow(e) ==
    [name |-> e.name, entityType |-> e.entityType,
     observations |-> DecodeObservations(e.observations)]

RelationOfRow(r) ==
    [from |-> r.from_entity, to |-> r.to_entity, relationType |-> r.relationType]

\* loadGraph over the two tables (the storage-error branch is not taken here)
loadGraph(ents, rels) ==
    [entities |-> [i \in 1..Len(ents) |-> EntityOfRow(ents[i])],
     relations |-> [i \in 1..Len(rels) |-> RelationOfRow(rels[i])]]

\* loadGraph whose catch keeps the rows read before the statement that threw
loadGraphPartial(ents, rels, fails) ==
    IF fails = "entities" THEN [entities |-> <<>>, relations |-> <<>>]
    ELSE [entities |-> loadGraph(ents, rels).entities, relations |-> <<>>]

\* loadGraph when the statement `fails` ("entities": SELECT * FROM entities,
\* "relations": SELECT * FROM relations) throws: the catch returns the empty
\* graph
loadGraphCatch(ents, rels, fails) ==
    [entities |-> <<>>, relations |-> <<>>]

\* SELECT ... FROM entities WHERE name = ?
HasName(ents, name) == \E i \in 1..Len(ents) : ents[i].name = name
RowOfName(ents, name) == ents[CHOOSE i \in 1..Len(ents) : ents[i].name = name]

----------------------------------------------------------------------------
(* createEntities                                                          *)

\* createEntitiesIter that pushes the entity to newEntities whether or not
\* the INSERT OR IGNORE has changed a row
createEntitiesIterPushAll(st, entity) ==
    IF HasName(st.entities, entity.name)
    THEN [st EXCEPT !.ret = Append(@, entity)]
    ELSE [st EXCEPT
            !.entities = Append(@, [id |-> st.nextId,
                                    name |-> entity.name,
                                    entityType |-> entity.entityType,
                                    observations |-> EncodeObservations(entity.observations),
                                    embedding |-> Placeholder]),
            !.nextId = @ + 1,
            !.ret = Append(@, entity),
            !.tasks = @ \cup {[kind |-> "create", id |-> st.nextId,
                               text |-> CombinedText(entity.name, entity.observations)]}]

\* createEntitiesIter with a plain INSERT into a table without UNIQUE on name
createEntitiesIterPlain(st, entity) ==
    [st EXCEPT
        !.entities = Append(@, [id |-> st.nextId,
                                name |-> entity.name,
                                entityType |-> entity.entityType,
                                observations |-> EncodeObservations(entity.observations),
                                embedding |-> Placeholder]),
        !.nextId = @ + 1,
        !.ret = Append(@, entity),
        !.tasks = @ \cup {[kind |-> "create", id |-> st.nextId,
                           text |-> CombinedText(entity.name, entity.observations)]}]

\* createEntitiesIter with INSERT OR REPLACE in the place of INSERT OR IGNORE
createEntitiesIterReplace(st, entity) ==
    LET row == [id |-> st.nextId,
                name |-> entity.name,
                entityType |-> entity.entityType,
                observations |-> EncodeObservations(entity.observations),
                embedding |-> Placeholder]
    IN  [st EXCEPT
            !.entities = Append(SelectSeq(@, LAMBDA e : e.name # entity.name), row),
            !.nextId = @ + 1,
            !.ret = Append(@, entity),
            !.tasks = @ \cup {[kind |-> "create", id |-> st.nextId,
                               text |-> CombinedText(entity.name, entity.observations)]}]

\* One iteration of the loop of the vector-enabled createEntities:
\* INSERT OR IGNORE, and for an inserted row the detached embedding task,
\* which runs up to `await this.generateEmbedding(combinedText)`.
\* createEntitiesIter on a table without AUTOINCREMENT: the new row takes
\* the largest id in the table plus one, which a deleted row may have had
createEntitiesIterReuse(st, entity) ==
    IF HasName(st.entities, entity.name)
    THEN st
    ELSE LET ids == {st.entities[i].id : i \in 1..Len(st.entities)}
             id == IF ids = {} THEN 1
                   ELSE 1 + CHOOSE m \in ids : \A k \in ids : k <= m
         IN  [st EXCEPT
                !.entities = Append(@, [id |-> id,
                                        name |-> entity.name,
                                        entityType |-> entity.entityType,
                                        observations |-> EncodeObservations(entity.observations),
                                        embedding |-> Placeholder]),
                !.nextId = @ + 1,
                !.ret = Append(@, entity),
                !.tasks = @ \cup {[kind |-> "create", id |-> id,
                                   text |-> CombinedText(entity.name, entity.observations)]}]

createEntitiesIter(st, entity) ==
    IF HasName(st.entities, entity.name)
    THEN st
    ELSE [st EXCEPT
            !.entities = Append(@, [id |-> st.nextId,
                                    name |-> entity.name,
                                    entityType |-> entity.entityType,
                                    observations |-> EncodeObservations(entity.observations),
                                    embedding |-> Placeholder]),
            !.nextId = @ + 1,
            !.ret = Append(@, entity),
            !.tasks = @ \cup {[kind |-> "create", id |-> st.nextId,
                               text |-> CombinedText(entity.name, entity.observations)]}]

\* One iteration of the loop of the lexical-only createEntities
createEntitiesIterLexical(st, entity) ==
    IF HasName(st.entities, entity.name)
    THEN st
    ELSE [st EXCEPT
            !.entities = Append(@, [id |-> st.nextId,
                                    name |-> entity.name,
                                    entityType |-> entity.entityType,
                                    observations |-> EncodeObservations(entity.observations),
                                    embedding |-> NoColumn]),
            !.nextId = @ + 1,
            !.ret = Append(@, entity)]

RECURSIVE createEntitiesLoop(_, _, _)
createEntitiesLoop(st, todo, m) ==
    IF todo = <<>> THEN st
    ELSE createEntitiesLoop(
            IF m = "vector" THEN createEntitiesIter(st, Head(todo))
                            ELSE createEntitiesIterLexical(st, Head(todo)),
            Tail(todo), m)

\* the tables as one value, with the result being built
Db == [entities |-> entities, relations |-> relations, entities_vec |-> entities_vec,
       nextId |-> nextId, tasks |-> tasks, ret |-> <<>>, err |-> FALSE]

\* the tables as the call found them
Before == [entities |-> entities, relations |-> relations,
           entities_vec |-> entities_vec, tasks |-> tasks]


----------------------------------------------------------------------------
(* createRelations                                                         *)

HasRelation(rels, r) ==
    \E i \in 1..Len(rels) :
        /\ rels[i].from_entity = r.from
        /\ rels[i].to_entity = r.to
        /\ rels[i].relationType = r.relationType

\* createRelationsIter over a relations table with foreign keys on the names
\* of the entities: a relation with a missing endpoint fails the call
createRelationsIterForeignKey(st, relation) ==
    IF ~(HasName(st.entities, relation.from) /\ HasName(st.entities, relation.to))
    THEN [st EXCEPT !.err = TRUE]
    ELSE IF HasRelation(st.relations, relation)
    THEN st
    ELSE [st EXCEPT
            !.relations = Append(@, [from_entity |-> relation.from,
                                     to_entity |-> relation.to,
                                     relationType |-> relation.relationType]),
            !.ret = Append(@, relation)]

\* createRelationsIter with a plain INSERT into a table without UNIQUE
createRelationsIterPlain(st, relation) ==
    [st EXCEPT
        !.relations = Append(@, [from_entity |-> relation.from,
                                 to_entity |-> relation.to,
                                 relationType |-> relation.relationType]),
        !.ret = Append(@, relation)]

\* INSERT OR IGNORE INTO relations; result.changes > 0 => newRelations.push
createRelationsIter(st, relation) ==
    IF HasRelation(st.relations, relation)
    THEN st
    ELSE [st EXCEPT
            !.relations = Append(@, [from_entity |-> relation.from,
                                     to_entity |-> relation.to,
                                     relationType |-> relation.relationType]),
            !.ret = Append(@, relation)]

RECURSIVE createRelationsLoop(_, _)
createRelationsLoop(st, todo) ==
    IF todo = <<>> THEN st
    ELSE createRelationsLoop(createRelationsIter(st, Head(todo)), Tail(todo))

----------------------------------------------------------------------------
(* addObservations                                                         *)

\* UPDATE entities SET observations = ? WHERE name = ?
updateEntityObservations(ents, name, stored) ==
    [i \in 1..Len(ents) |->
        IF ents[i].name = name THEN [ents[i] EXCEPT !.observations = stored]
                               ELSE ents[i]]

\* newObservationsOf without the filter: every given string counts as new
newObservationsAll(contents, existingObservations) == contents

\* o.contents.filter((content) => !existingObservations.includes(content))
newObservationsOf(contents, existingObservations) ==
    FilterNotIn(contents, existingObservations)

\* The callback of observations.map in the vector-enabled addObservations.
\* The callback is async and holds no await: it runs to its end when map
\* calls it, and a throw becomes the rejection of its promise.
addObservationsIter(st, o) ==
    IF ~HasName(st.entities, o.entityName)
    THEN [st EXCEPT !.err = TRUE]
    ELSE LET entityRow == RowOfName(st.entities, o.entityName)
             existingObservations == DecodeObservations(entityRow.observations)
             newObservations == newObservationsOf(o.contents, existingObservations)
             allObservations == existingObservations \o newObservations
         IN  IF Len(newObservations) > 0
             THEN [st EXCEPT
                    !.entities = updateEntityObservations(
                                    @, o.entityName, EncodeObservations(allObservations)),
                    !.tasks = @ \cup {[kind |-> "add", id |-> entityRow.id,
                                       text |-> CombinedText(entityRow.name, allObservations)]},
                    !.ret = Append(@, [entityName |-> o.entityName,
                                       addedObservations |-> newObservations])]
             ELSE [st EXCEPT
                    !.ret = Append(@, [entityName |-> o.entityName,
                                       addedObservations |-> <<>>])]

\* The callback of observations.map in the lexical-only addObservations
addObservationsIterLexical(st, o) ==
    IF ~HasName(st.entities, o.entityName)
    THEN [st EXCEPT !.err = TRUE]
    ELSE LET entity == RowOfName(st.entities, o.entityName)
             existingObservations == DecodeObservations(entity.observations)
             newObservations == newObservationsOf(o.contents, existingObservations)
             allObservations == existingObservations \o newObservations
         IN  [st EXCEPT
                !.entities = IF Len(newObservations) > 0
                             THEN updateEntityObservations(
                                    @, o.entityName, EncodeObservations(allObservations))
                             ELSE @,
                !.ret = Append(@, [entityName |-> o.entityName,
                                   addedObservations |-> newObservations])]

\* Promise.all(observations.map(async ...)): every callback runs, whatever
\* the earlier ones did; the call fails when one of them has thrown.
RECURSIVE addObservationsMap(_, _)
addObservationsMap(st, todo) ==
    IF todo = <<>> THEN st
    ELSE addObservationsMap(addObservationsIter(st, Head(todo)), Tail(todo))

\* observations.map((o) => ...): a throw ends the map
RECURSIVE addObservationsMapLexical(_, _)
addObservationsMapLexical(st, todo) ==
    IF todo = <<>> \/ st.err THEN st
    ELSE addObservationsMapLexical(addObservationsIterLexical(st, Head(todo)), Tail(todo))

----------------------------------------------------------------------------
(* deleteEntities                                                          *)

\* DELETE FROM entities WHERE name = ?
deleteEntityRow(ents, name) == SelectSeq(ents, LAMBDA e : e.name # name)

\* deleteRelationsTouching without the test of to_entity
deleteRelationsFromOnly(rels, name) ==
    SelectSeq(rels, LAMBDA r : ~(r.from_entity = name))

\* DELETE FROM relations WHERE from_entity = ? OR to_entity = ?
deleteRelationsTouching(rels, name) ==
    SelectSeq(rels, LAMBDA r : ~(r.from_entity = name \/ r.to_entity = name))

\* DELETE FROM entities_vec WHERE entity_id = ?
deleteVecEntity(vec, id) == [k \in DOMAIN vec \ {id} |-> vec[k]]

\* One iteration of the loop of the vector-enabled deleteEntities
deleteEntitiesIter(st, entityName) ==
    LET found == HasName(st.entities, entityName)
        vec == IF found
               THEN deleteVecEntity(st.entities_vec, RowOfName(st.entities, entityName).id)
               ELSE st.entities_vec
    IN  [st EXCEPT
            !.entities_vec = vec,
            !.entities = deleteEntityRow(@, entityName),
            !.relations = deleteRelationsTouching(@, entityName)]

\* One iteration of the loop of the lexical-only deleteEntities
deleteEntitiesIterLexical(st, entityName) ==
    [st EXCEPT
        !.entities = deleteEntityRow(@, entityName),
        !.relations = deleteRelationsTouching(@, entityName)]

RECURSIVE deleteEntitiesLoop(_, _, _)
deleteEntitiesLoop(st, todo, m) ==
    IF todo = <<>> THEN st
    ELSE deleteEntitiesLoop(
            IF m = "vector" THEN deleteEntitiesIter(st, Head(todo))
                            ELSE deleteEntitiesIterLexical(st, Head(todo)),
            Tail(todo), m)

----------------------------------------------------------------------------
(* deleteObservations, deleteRelations                                     *)

\* filteredObservationsOf with the test of the filter inverted
filteredObservationsInverted(existingObservations, listed) ==
    SelectSeq(existingObservations, LAMBDA o : Includes(listed, o))

\* existingObservations.filter((o) => !d.observations.includes(o))
filteredObservationsOf(existingObservations, listed) ==
    FilterNotIn(existingObservations, listed)

\* deleteObservationsIter that also puts the placeholder back into the
\* embedding of the row
deleteObservationsIterInvalidate(st, d) ==
    IF ~HasName(st.entities, d.entityName)
    THEN st
    ELSE LET entity == RowOfName(st.entities, d.entityName)
             existingObservations == DecodeObservations(entity.observations)
             filteredObservations == filteredObservationsOf(existingObservations, d.observations)
         IN  [st EXCEPT
                !.entities =
                    [i \in 1..Len(@) |->
                        IF @[i].name = d.entityName
                        THEN [@[i] EXCEPT
                                !.observations = EncodeObservations(filteredObservations),
                                !.embedding = Placeholder]
                        ELSE @[i]]]

\* The callback of deletions.forEach (the same text in both managers)
deleteObservationsIter(st, d) ==
    IF ~HasName(st.entities, d.entityName)
    THEN st
    ELSE LET entity == RowOfName(st.entities, d.entityName)
             existingObservations == DecodeObservations(entity.observations)
             filteredObservations == filteredObservationsOf(existingObservations, d.observations)
         IN  [st EXCEPT
                !.entities = updateEntityObservations(
                                @, d.entityName, EncodeObservations(filteredObservations))]

RECURSIVE deleteObservationsLoop(_, _)
deleteObservationsLoop(st, todo) ==
    IF todo = <<>> THEN st
    ELSE deleteObservationsLoop(deleteObservationsIter(st, Head(todo)), Tail(todo))

\* DELETE FROM relations WHERE from_entity = ? AND to_entity = ? AND relationType = ?
deleteRelationRow(rels, relation) ==
    SelectSeq(rels, LAMBDA r : ~(/\ r.from_entity = relation.from
                                 /\ r.to_entity = relation.to
                                 /\ r.relationType = relation.relationType))

RECURSIVE deleteRelationsLoop(_, _)
deleteRelationsLoop(st, todo) ==
    IF todo = <<>> THEN st
    ELSE deleteRelationsLoop(
            [st EXCEPT !.relations = deleteRelationRow(@, Head(todo))], Tail(todo))


----------------------------------------------------------------------------
(* Detached embedding tasks, after their await                             *)

\* UPDATE entities SET embedding = ? WHERE id = ?
updateEntityEmbedding(ents, id, embedding) ==
    [i \in 1..Len(ents) |->
        IF ents[i].id = id THEN [ents[i] EXCEPT !.embedding = embedding]
                           ELSE ents[i]]

\* insertVecEntity of a task that keeps the embedding on the row only
insertVecEntitySkip(vec, id, embedding) == vec

\* INSERT INTO entities_vec (entity_id, embedding) VALUES (?, ?), for an id
\* that has no row yet (entity_id is the primary key: CreateTaskDone takes the
\* refusal of a second row of the same id as the error the task catches)
insertVecEntity(vec, id, embedding) ==
    [k \in DOMAIN vec \cup {id} |-> IF k = id THEN embedding ELSE vec[k]]

\* updateVecEntity of a task that writes the new embedding on the row only
updateVecEntitySkip(vec, id, embedding) == vec

\* UPDATE entities_vec SET embedding = ? WHERE entity_id = ?
updateVecEntity(vec, id, embedding) ==
    [k \in DOMAIN vec |-> IF k = id THEN embedding ELSE vec[k]]

----------------------------------------------------------------------------
(* searchNodes and openNodes                                               *)

\* String.prototype.toLowerCase and SQL LOWER, one character
LowerChar(c) ==
    CASE c = "A" -> "a"
      [] c = "B" -> "b"
      [] c = "X" -> "x"
      [] OTHER -> c

\* query.toLowerCase(); LOWER(column)
toLowerCase(s) == [i \in 1..Len(s) |-> LowerChar(s[i])]

\* SQL LIKE of SQLite: % stands for any run of characters, _ for any one
\* character, letters compare without case
RECURSIVE Like(_, _)
Like(s, pattern) ==
    IF pattern = <<>> THEN s = <<>>
    ELSE IF Head(pattern) = "%"
         THEN Like(s, Tail(pattern)) \/ (s # <<>> /\ Like(Tail(s), pattern))
         ELSE /\ s # <<>>
              /\ Head(pattern) = "_" \/ LowerChar(Head(pattern)) = LowerChar(Head(s))
              /\ Like(Tail(s), Tail(pattern))

\* `%${lowerQuery}%`
LikePattern(lowerQuery) == <<"%">> \o lowerQuery \o <<"%">>

\* WHERE LOWER(name) LIKE ? OR LOWER(entityType) LIKE ? OR LOWER(observations) LIKE ?
\* with the name matched only
lexicalMatchNameOnly(e, lowerQuery) ==
    Like(toLowerCase(e.name), LikePattern(lowerQuery))

\* WHERE LOWER(name) LIKE ? OR LOWER(entityType) LIKE ? OR LOWER(observations) LIKE ?
lexicalMatch(e, lowerQuery) ==
    \/ Like(toLowerCase(e.name), LikePattern(lowerQuery))
    \/ Like(toLowerCase(e.entityType), LikePattern(lowerQuery))
    \/ Like(toLowerCase(e.observations), LikePattern(lowerQuery))

\* the distance vec_search computes between two embeddings.  The embedding
\* model and sqlite-vec are outside the repository: texts stand for their
\* vectors and the distance is the number of places where two texts differ.
Distance(a, b) ==
    LET n == IF Len(a.of) < Len(b.of) THEN Len(a.of) ELSE Len(b.of)
        m == IF Len(a.of) < Len(b.of) THEN Len(b.of) ELSE Len(a.of)
    IN  Cardinality({i \in 1..n : a.of[i] # b.of[i]}) + (m - n)

\* the orders in which ORDER BY distance can list the records of the index
\* (records at the same distance come in either order)
orderByDistance(vec, queryEmbedding) ==
    { p \in [1..Cardinality(DOMAIN vec) -> DOMAIN vec] :
        /\ \A i, j \in DOMAIN p : p[i] = p[j] => i = j
        /\ \A i, j \in DOMAIN p :
              i < j => Distance(queryEmbedding, vec[p[i]]) <= Distance(queryEmbedding, vec[p[j]]) }

\* LIMIT ? left out of the nearest-neighbour query
limitNone(list, topK) == list

\* LIMIT ?
limit(list, topK) == SubSeq(list, 1, IF topK < Len(list) THEN topK ELSE Len(list))

\* SELECT entity_id, distance FROM entities_vec WHERE vec_search(embedding, ?)
\* ORDER BY distance LIMIT ?: the possible lists similarEntityIds
similarEntityIds(vec, queryEmbedding, topK) ==
    { limit(p, topK) : p \in orderByDistance(vec, queryEmbedding) }

\* a row made up for every id of the index, stored or not
entitiesOfIdsUnchecked(ents, entityIds) ==
    [i \in 1..Len(entityIds) |->
        IF \E k \in 1..Len(ents) : ents[k].id = entityIds[i]
        THEN ents[CHOOSE k \in 1..Len(ents) : ents[k].id = entityIds[i]]
        ELSE [id |-> entityIds[i], name |-> <<>>, entityType |-> <<>>,
              observations |-> <<>>, embedding |-> Placeholder]]

\* SELECT id, name, entityType, observations FROM entities WHERE id IN (...):
\* the rows come in the order of the table
entitiesOfIds(ents, entityIds) ==
    SelectSeq(ents, LAMBDA e : e.id \in Range(entityIds))

\* SELECT * FROM relations WHERE from_entity IN (...) OR to_entity IN (...)
relationsAmongEither(rels, entityNames) ==
    SelectSeq(rels, LAMBDA r : r.from_entity \in entityNames \/ r.to_entity \in entityNames)

\* SELECT * FROM relations WHERE from_entity IN (...) AND to_entity IN (...)
\* of searchNodes, run when entityNames is not empty
relationsAmong(rels, entityNames) ==
    IF entityNames = {} THEN <<>>
    ELSE SelectSeq(rels, LAMBDA r : r.from_entity \in entityNames /\ r.to_entity \in entityNames)

EmptyGraph == [entities |-> <<>>, relations |-> <<>>]

\* the graph searchNodes builds from the rows it has selected
searchResult(rows, rels) ==
    loadGraph(rows, relationsAmong(rels, {rows[i].name : i \in 1..Len(rows)}))

\* searchNodes of the vector-enabled manager, after the nearest-neighbour query
searchNodesOfIds(ents, rels, ids) ==
    IF Len(ids) = 0 THEN EmptyGraph
    ELSE searchResult(entitiesOfIds(ents, ids), rels)

\* searchNodes of the lexical-only manager
searchNodesLexical(ents, rels, query) ==
    searchResult(SelectSeq(ents, LAMBDA e : lexicalMatch(e, toLowerCase(query))), rels)

\* one row for every element of names, found by its name
entitiesOfNamesEach(ents, names) ==
    LET found == SelectSeq(names, LAMBDA n : HasName(ents, n))
    IN  [i \in 1..Len(found) |-> RowOfName(ents, found[i])]

\* SELECT * FROM entities WHERE name IN (...)
entitiesOfNames(ents, names) ==
    SelectSeq(ents, LAMBDA e : e.name \in Range(names))

\* the relation query of openNodes with OR in the place of AND
openRelationsEither(rels, names) ==
    SelectSeq(rels, LAMBDA r : r.from_entity \in Range(names) \/ r.to_entity \in Range(names))

\* SELECT * FROM relations WHERE from_entity IN (...) AND to_entity IN (...)
\* of openNodes: the placeholders are the requested names
openRelations(rels, names) ==
    SelectSeq(rels, LAMBDA r : r.from_entity \in Range(names) /\ r.to_entity \in Range(names))

\* openNodes, the same in both managers
openNodes(ents, rels, names) ==
    IF Len(names) = 0 THEN EmptyGraph
    ELSE loadGraph(entitiesOfNames(ents, names), openRelations(rels, names))

----------------------------------------------------------------------------
(* Arguments of the calls                                                  *)

Names == {sA, sB}
EntityTypes == {sT, sU}

\* observation lists given to a call of one element
ObsLists == {<<>>, <<sX>>, <<sX, sY>>, <<sY, sY>>, <<sEmpty>>, <<sXdY>>}

EntityArgs == [name : {sA}, entityType : {sT}, observations : ObsLists]
PlainEntityArgs ==
    { [name |-> sA, entityType |-> sT, observations |-> <<sX>>],
      [name |-> sA, entityType |-> sU, observations |-> <<sY>>],
      [name |-> sB, entityType |-> sT, observations |-> <<sX>>] }
CreateEntitiesArgs == SeqsUpTo(EntityArgs, 1) \cup SeqsUpTo(PlainEntityArgs, 2)

RelationArgs ==
    { [from |-> sA, to |-> sB, relationType |-> sKnows],
      [from |-> sA, to |-> sB, relationType |-> sT],
      [from |-> sB, to |-> sB, relationType |-> sKnows] }
CreateRelationsArgs == SeqsUpTo(RelationArgs, 2)
DeleteRelationsArgs == SeqsUpTo(RelationArgs, 1)
    \cup {<<[from |-> sA, to |-> sB, relationType |-> sKnows],
            [from |-> sB, to |-> sB, relationType |-> sKnows]>>}

AddArgs == [entityName : {sA}, contents : ObsLists]
PlainAddArgs == [entityName : Names, contents : {<<sY>>}]
AddObservationsArgs == SeqsUpTo(AddArgs, 1) \cup SeqsUpTo(PlainAddArgs, 2)

DeletionArgs == [entityName : {sA}, observations : ObsLists \ {<<>>}]
PlainDeletionArgs == [entityName : Names, observations : {<<sX>>}]
DeleteObservationsArgs == SeqsUpTo(DeletionArgs, 1) \cup SeqsUpTo(PlainDeletionArgs, 2)

DeleteEntitiesArgs == SeqsUpTo(Names, 2)

\* the statements of loadGraph that can throw
StorageFaults == {"entities", "relations"}

\* searchNodes(query: string, topK: number = 5)
DefaultTopK == 5
TopKs == {1, DefaultTopK}
Queries == {<<"a">>, <<"B">>, <<"X">>, <<"|">>, <<"_">>}

OpenNodesArgs == SeqsUpTo(Names, 2)

----------------------------------------------------------------------------
(* The state machine                                                       *)

Init ==
    /\ mode \in {"vector", "lexical"}
    /\ entities = <<>>
    /\ relations = <<>>
    /\ entities_vec = <<>>
    /\ nextId = 1
    /\ tasks = {}
    /\ last = Idle
    /\ deleted = {}
    /\ enriched = {}
    /\ calls = 0

CreateEntities(ents) ==
    /\ last.op = "none"
    /\ calls < MaxCalls
    /\ calls' = calls + 1
    /\ LET st == createEntitiesLoop(Db, ents, mode)
       IN  /\ entities' = st.entities
           /\ nextId' = st.nextId
           /\ tasks' = st.tasks
           /\ last' = [op |-> "createEntities", args |-> ents, ret |-> st.ret,
                       err |-> FALSE, pre |-> Before]
    /\ UNCHANGED <<mode, relations, entities_vec, deleted, enriched>>

CreateRelations(rels) ==
    /\ last.op = "none"
    /\ calls < MaxCalls
    /\ calls' = calls + 1
    /\ LET st == createRelationsLoop(Db, rels)
       IN  /\ relations' = st.relations
           /\ last' = [op |-> "createRelations", args |-> rels, ret |-> st.ret,
                       err |-> FALSE, pre |-> Before]
    /\ UNCHANGED <<mode, entities, entities_vec, nextId, tasks, deleted, enriched>>

AddObservations(obs) ==
    /\ last.op = "none"
    /\ calls < MaxCalls
    /\ calls' = calls + 1
    /\ LET st == IF mode = "vector" THEN addObservationsMap(Db, obs)
                                    ELSE addObservationsMapLexical(Db, obs)
       IN  /\ entities' = st.entities
           /\ tasks' = st.tasks
           /\ last' = [op |-> "addObservations", args |-> obs,
                       ret |-> IF st.err THEN <<>> ELSE st.ret,
                       err |-> st.err, pre |-> Before]
    /\ UNCHANGED <<mode, relations, entities_vec, nextId, deleted, enriched>>

DeleteEntities(entityNames) ==
    /\ last.op = "none"
    /\ calls < MaxCalls
    /\ calls' = calls + 1
    /\ LET st == deleteEntitiesLoop(Db, entityNames, mode)
       IN  /\ entities' = st.entities
           /\ relations' = st.relations
           /\ entities_vec' = st.entities_vec
           /\ deleted' = deleted \cup
                   ({entities[i].id : i \in 1..Len(entities)}
                        \ {st.entities[i].id : i \in 1..Len(st.entities)})
           /\ last' = [op |-> "deleteEntities", args |-> entityNames, ret |-> <<>>,
                       err |-> FALSE, pre |-> Before]
    /\ UNCHANGED <<mode, nextId, tasks, enriched>>

DeleteObservations(deletions) ==
    /\ last.op = "none"
    /\ calls < MaxCalls
    /\ calls' = calls + 1
    /\ LET st == deleteObservationsLoop(Db, deletions)
       IN  /\ entities' = st.entities
           /\ last' = [op |-> "deleteObservations", args |-> deletions, ret |-> <<>>,
                       err |-> FALSE, pre |-> Before]
    /\ UNCHANGED <<mode, relations, entities_vec, nextId, tasks, deleted, enriched>>

DeleteRelations(rels) ==
    /\ last.op = "none"
    /\ calls < MaxCalls
    /\ calls' = calls + 1
    /\ LET st == deleteRelationsLoop(Db, rels)
       IN  /\ relations' = st.relations
           /\ last' = [op |-> "deleteRelations", args |-> rels, ret |-> <<>>,
                       err |-> FALSE, pre |-> Before]
    /\ UNCHANGED <<mode, entities, entities_vec, nextId, tasks, deleted, enriched>>

ReadGraph ==
    /\ last.op = "none"
    /\ last' = [op |-> "readGraph", args |-> <<>>, ret |-> loadGraph(entities, relations),
                err |-> FALSE, pre |-> Before]
    /\ UNCHANGED <<mode, entities, relations, entities_vec, nextId, tasks, deleted, enriched, calls>>

\* readGraph while the storage fails: one of the two statements of loadGraph
\* throws.  The statement that threw is kept in the place of the arguments.
ReadGraphFailed(fails) ==
    /\ last.op = "none"
    /\ last' = [op |-> "readGraph", args |-> <<fails>>,
                ret |-> loadGraphCatch(entities, relations, fails),
                err |-> FALSE, pre |-> Before]
    /\ UNCHANGED <<mode, entities, relations, entities_vec, nextId, tasks, deleted, enriched, calls>>

\* searchNodes.  The vector-enabled manager first awaits the embedding of the
\* query and touches no table before it has it; the queries then run in one
\* turn of the event loop.  The lexical-only manager takes no topK.
SearchNodes(query, topK) ==
    /\ last.op = "none"
    /\ IF mode = "vector"
       THEN \E ids \in similarEntityIds(entities_vec, generateEmbedding(query), topK) :
                last' = [op |-> "searchNodes", args |-> [query |-> query, topK |-> topK],
                         ret |-> searchNodesOfIds(entities, relations, ids),
                         err |-> FALSE, pre |-> Before]
       ELSE /\ topK = DefaultTopK
            /\ last' = [op |-> "searchNodes", args |-> [query |-> query, topK |-> topK],
                        ret |-> searchNodesLexical(entities, relations, query),
                        err |-> FALSE, pre |-> Before]
    /\ UNCHANGED <<mode, entities, relations, entities_vec, nextId, tasks, deleted, enriched, calls>>

\* generateEmbedding(query) throws: searchNodes rejects and the handler
\* passes the error on
SearchNodesFailed(query) ==
    /\ last.op = "none"
    /\ mode = "vector"
    /\ last' = [op |-> "searchNodes", args |-> [query |-> query, topK |-> DefaultTopK],
                ret |-> EmptyGraph, err |-> TRUE, pre |-> Before]
    /\ UNCHANGED <<mode, entities, relations, entities_vec, nextId, tasks, deleted, enriched, calls>>

OpenNodes(names) ==
    /\ last.op = "none"
    /\ last' = [op |-> "openNodes", args |-> names,
                ret |-> openNodes(entities, relations, names),
                err |-> FALSE, pre |-> Before]
    /\ UNCHANGED <<mode, entities, relations, entities_vec, nextId, tasks, deleted, enriched, calls>>

\* the request handler hands the result (or the error) of the call to the
\* client; the line a failed task has logged is written to stderr
Respond ==
    /\ last.op # "none"
    /\ last' = Idle
    /\ UNCHANGED <<mode, entities, relations, entities_vec, nextId, tasks, deleted, enriched, calls>>

\* CreateTaskDone of a manager that takes the answers of the embedding model
\* in the order of the entities: a task waits for the tasks of older rows
CreateTaskDoneInOrder(t) ==
    /\ last.op = "none"
    /\ t \in tasks
    /\ t.kind = "create"
    /\ \A u \in tasks : u.id >= t.id
    /\ LET embedding == generateEmbedding(t.text)
       IN  /\ entities' = updateEntityEmbedding(entities, t.id, embedding)
           /\ IF t.id \in DOMAIN entities_vec
              THEN UNCHANGED <<entities_vec, enriched>>
              ELSE /\ entities_vec' = insertVecEntity(entities_vec, t.id, embedding)
                   /\ enriched' = enriched \cup {t.id}
    /\ tasks' = tasks \ {t}
    /\ UNCHANGED <<mode, relations, nextId, last, deleted, calls>>

\* A task resumes when the embedding model answers, which the event loop
\* delivers after the microtasks of the running call: the request handler has
\* by then taken the result of the call (await knowledgeGraphManager...).
\* The task of createEntities resumes with the embedding.
CreateTaskDone(t) ==
    /\ last.op = "none"
    /\ t \in tasks
    /\ t.kind = "create"
    /\ LET embedding == generateEmbedding(t.text)
       IN  /\ entities' = updateEntityEmbedding(entities, t.id, embedding)
           /\ IF t.id \in DOMAIN entities_vec
              THEN UNCHANGED <<entities_vec, enriched>>
              ELSE /\ entities_vec' = insertVecEntity(entities_vec, t.id, embedding)
                   /\ enriched' = enriched \cup {t.id}
    /\ tasks' = tasks \ {t}
    /\ UNCHANGED <<mode, relations, nextId, last, deleted, calls>>

\* AddTaskDone of a manager that drops the embedding of a snapshot when a
\* task of the same entity with a longer snapshot is pending
AddTaskDoneNewest(t) ==
    /\ last.op = "none"
    /\ t \in tasks
    /\ t.kind = "add"
    /\ LET embedding == generateEmbedding(t.text)
           stale == \E u \in tasks : u.id = t.id /\ Len(u.text) > Len(t.text)
       IN  /\ entities' = IF stale THEN entities
                          ELSE updateEntityEmbedding(entities, t.id, embedding)
           /\ entities_vec' = IF stale THEN entities_vec
                              ELSE updateVecEntity(entities_vec, t.id, embedding)
    /\ enriched' = enriched \cup {t.id}
    /\ tasks' = tasks \ {t}
    /\ UNCHANGED <<mode, relations, nextId, last, deleted, calls>>

\* the task of addObservations resumes with the embedding
AddTaskDone(t) ==
    /\ last.op = "none"
    /\ t \in tasks
    /\ t.kind = "add"
    /\ LET embedding == generateEmbedding(t.text)
       IN  /\ entities' = updateEntityEmbedding(entities, t.id, embedding)
           /\ entities_vec' = updateVecEntity(entities_vec, t.id, embedding)
    /\ enriched' = enriched \cup {t.id}
    /\ tasks' = tasks \ {t}
    /\ UNCHANGED <<mode, relations, nextId, last, deleted, calls>>

\* the catch of a task that takes back the row whose embedding it could not
\* compute
TaskFailedRollback(t) ==
    /\ last.op = "none"
    /\ t \in tasks
    /\ tasks' = tasks \ {t}
    /\ entities' = SelectSeq(entities, LAMBDA e : e.id # t.id)
    /\ last' = [op |-> "taskFailed", args |-> t, ret |-> <<>>, err |-> FALSE, pre |-> Before]
    /\ UNCHANGED <<mode, relations, entities_vec, nextId, deleted, enriched, calls>>

\* the catch of a task that writes a zero vector into the index for its entity
TaskFailedZeroRecord(t) ==
    /\ last.op = "none"
    /\ t \in tasks
    /\ tasks' = tasks \ {t}
    /\ entities_vec' = insertVecEntity(entities_vec, t.id, Placeholder)
    /\ last' = [op |-> "taskFailed", args |-> t, ret |-> <<>>, err |-> FALSE, pre |-> Before]
    /\ UNCHANGED <<mode, entities, relations, nextId, deleted, enriched, calls>>

\* generateEmbedding throws: the catch of the task logs the error with
\* console.error, and the task is over
TaskFailed(t) ==
    /\ last.op = "none"
    /\ t \in tasks
    /\ tasks' = tasks \ {t}
    /\ last' = [op |-> "taskFailed", args |-> t, ret |-> <<>>, err |-> FALSE, pre |-> Before]
    /\ UNCHANGED <<mode, entities, relations, entities_vec, nextId, deleted, enriched, calls>>

Next ==
    \/ \E ents \in CreateEntitiesArgs : CreateEntities(ents)
    \/ \E rels \in CreateRelationsArgs : CreateRelations(rels)
    \/ \E obs \in AddObservationsArgs : AddObservations(obs)
    \/ \E entityNames \in DeleteEntitiesArgs : DeleteEntities(entityNames)
    \/ \E deletions \in DeleteObservationsArgs : DeleteObservations(deletions)
    \/ \E rels \in DeleteRelationsArgs : DeleteRelations(rels)
    \/ ReadGraph
    \/ \E fails \in StorageFaults : ReadGraphFailed(fails)
    \/ Respond
    \/ \E t \in tasks : CreateTaskDone(t)
    \/ \E t \in tasks : AddTaskDone(t)
    \/ \E t \in tasks : TaskFailed(t)

Spec == Init /\ [][Next]_vars

\* The calls of a behaviour that is searched: every operation, with fewer
\* argument lists than Next gives them.
SearchEntityArgs ==
    { [name |-> sA, entityType |-> sT, observations |-> <<sX, sY>>],
      [name |-> sB, entityType |-> sT, observations |-> <<sX>>] }

NextSearch ==
    \/ \E ents \in SeqsUpTo(SearchEntityArgs, 2) : CreateEntities(ents)
    \/ \E rels \in DeleteRelationsArgs : CreateRelations(rels)
    \/ \E obs \in SeqsUpTo(PlainAddArgs, 1) : AddObservations(obs)
    \/ \E entityNames \in DeleteEntitiesArgs : DeleteEntities(entityNames)
    \/ \E deletions \in SeqsUpTo(PlainDeletionArgs, 1) : DeleteObservations(deletions)
    \/ \E rels \in SeqsUpTo(RelationArgs, 1) : DeleteRelations(rels)
    \/ \E query \in Queries, topK \in TopKs : SearchNodes(query, topK)
    \/ \E query \in Queries : SearchNodesFailed(query)
    \/ \E names \in OpenNodesArgs : OpenNodes(names)
    \/ Respond
    \/ \E t \in tasks : CreateTaskDone(t)
    \/ \E t \in tasks : AddTaskDone(t)
    \/ \E t \in tasks : TaskFailed(t)

SearchSpec == Init /\ [][NextSearch]_vars

\* The behaviours in which the embedding model may never answer for one
\* entity.  The event loop runs a call to its response, and runs the task of
\* every other entity once the model has answered for it; nothing makes the
\* model answer for the entity of id StuckId.
StuckId == 1

OtherTaskDone ==
    \E t \in tasks : t.id # StuckId /\ (CreateTaskDone(t) \/ AddTaskDone(t))

LiveEntityArgs ==
    { [name |-> sA, entityType |-> sT, observations |-> <<sX>>],
      [name |-> sB, entityType |-> sT, observations |-> <<sX>>] }

NextLive ==
    \/ \E ents \in SeqsUpTo(LiveEntityArgs, 2) : CreateEntities(ents)
    \/ \E rels \in SeqsUpTo(RelationArgs, 1) : CreateRelations(rels)
    \/ \E obs \in SeqsUpTo(PlainAddArgs, 1) : AddObservations(obs)
    \/ \E entityNames \in SeqsUpTo(Names, 1) : DeleteEntities(entityNames)
    \/ \E deletions \in SeqsUpTo(PlainDeletionArgs, 1) : DeleteObservations(deletions)
    \/ \E rels \in SeqsUpTo(RelationArgs, 1) : DeleteRelations(rels)
    \/ ReadGraph
    \/ \E names \in SeqsUpTo(Names, 1) : OpenNodes(names)
    \/ Respond
    \/ \E t \in tasks : CreateTaskDone(t)
    \/ \E t \in tasks : AddTaskDone(t)
    \/ \E t \in tasks : TaskFailed(t)

LiveSpec ==
    /\ Init
    /\ [][NextLive]_vars
    /\ WF_vars(Respond)
    /\ SF_vars(OtherTaskDone)

\* The behaviours in which the event loop resumes every task: the embedding
\* model answers (or fails) for every text it was given, a call runs to its
\* response, and a task whose answer has arrived runs between two calls.
AnyTaskDone ==
    \E t \in tasks : CreateTaskDone(t) \/ AddTaskDone(t)

FairSpec ==
    /\ Init
    /\ [][NextLive]_vars
    /\ WF_vars(Respond)
    /\ SF_vars(AnyTaskDone)


----------------------------------------------------------------------------
(* What the claims speak of                                                *)

\* what readGraph returns in the current state, and what it returned before the last call
Graph == loadGraph(entities, relations)
GraphBefore == loadGraph(last.pre.entities, last.pre.relations)

\* the observations readGraph shows for an entity name
ObservationsOf(ents, name) == DecodeObservations(RowOfName(ents, name).observations)

NoRepeat(list) == \A i, j \in 1..Len(list) : list[i] = list[j] => i = j

\* C1: createEntities is idempotent: a name that already exists stays one
\* entity, nothing is returned for it, and its stored entityType and
\* observations stay as they were; when every given name exists already the
\* call returns the empty list.
C1_CreateEntitiesIdempotent ==
    last.op = "createEntities" =>
        /\ \A k \in 1..Len(last.args) :
            LET e == last.args[k]
            IN  /\ Cardinality({i \in 1..Len(entities) : entities[i].name = e.name}) = 1
                /\ HasName(last.pre.entities, e.name) =>
                    /\ \A j \in 1..Len(last.ret) : last.ret[j].name # e.name
                    /\ RowOfName(entities, e.name).entityType
                         = RowOfName(last.pre.entities, e.name).entityType
                    /\ RowOfName(entities, e.name).observations
                         = RowOfName(last.pre.entities, e.name).observations
        /\ (\A k \in 1..Len(last.args) : HasName(last.pre.entities, last.args[k].name))
              => last.ret = <<>>
        /\ ~last.err

\* C1 witness: a second createEntities of an entity that is stored already,
\* given with another type and other observations than the stored ones
C1_Witness ==
    /\ last.op = "createEntities"
    /\ Len(last.args) = 1
    /\ HasName(last.pre.entities, last.args[1].name)
    /\ RowOfName(last.pre.entities, last.args[1].name).entityType # last.args[1].entityType
    /\ ObservationsOf(last.pre.entities, last.args[1].name) # last.args[1].observations
    /\ last.ret = <<>>

\* C2: deleteEntities cascades: afterwards no entity is named in the list, no
\* relation has its from or its to in the list, and every other entity and
\* every relation touching no listed name is there as before.
C2_DeleteEntitiesCascade ==
    last.op = "deleteEntities" =>
        LET names == Range(last.args)
        IN  /\ \A e \in Range(Graph.entities) : e.name \notin names
            /\ \A r \in Range(Graph.relations) : r.from \notin names /\ r.to \notin names
            /\ Graph.entities
                 = SelectSeq(GraphBefore.entities, LAMBDA e : e.name \notin names)
            /\ Graph.relations
                 = SelectSeq(GraphBefore.relations,
                             LAMBDA r : r.from \notin names /\ r.to \notin names)
            /\ ~last.err

\* C2 witness: a deleteEntities that removed an entity and a relation and
\* left another entity and another relation in the graph
C2_Witness ==
    /\ last.op = "deleteEntities"
    /\ Len(Graph.entities) > 0
    /\ Len(Graph.entities) < Len(GraphBefore.entities)
    /\ Len(Graph.relations) > 0
    /\ Len(Graph.relations) < Len(GraphBefore.relations)


\* C3: an addObservations call with a target that names no entity fails and
\* changes the stored observations of no entity, wherever the missing target
\* stands in the list.
C3_NoPartialWrite ==
    (/\ last.op = "addObservations"
     /\ \E k \in 1..Len(last.args) : ~HasName(last.pre.entities, last.args[k].entityName))
        => /\ last.err
           /\ Graph.entities = GraphBefore.entities

\* C4: for a target that exists, addedObservations is the elements of contents
\* that are not among the stored observations E, in the order of contents, and
\* the observations read back are E followed by addedObservations.
C4_ObservationMerge ==
    (last.op = "addObservations" /\ ~last.err /\ Len(last.args) = 1) =>
        LET o == last.args[1]
            E == ObservationsOf(last.pre.entities, o.entityName)
            added == last.ret[1].addedObservations
        IN  /\ added = FilterNotIn(o.contents, E)
            /\ ObservationsOf(entities, o.entityName) = E \o added

\* C5: no entity's observation sequence holds the same string twice
C5_NoDuplicateObservations ==
    \A i \in 1..Len(Graph.entities) : NoRepeat(Graph.entities[i].observations)

\* C6: deleteEntities given only names of no existing entity leaves the
\* entities and the relations of the graph as they were
C6_DeleteMissingEntityUnchanged ==
    (/\ last.op = "deleteEntities"
     /\ \A k \in 1..Len(last.args) : ~HasName(last.pre.entities, last.args[k]))
        => /\ ~last.err
           /\ Graph = GraphBefore

\* a deletion that names no entity, or lists no observation the entity holds
MissingDeletion(d) ==
    \/ ~HasName(last.pre.entities, d.entityName)
    \/ \A n \in 1..Len(d.observations) :
          ~Includes(ObservationsOf(last.pre.entities, d.entityName), d.observations[n])

\* C7: deleteObservations whose targets name no entity or list no observation
\* the entity holds, and deleteRelations of triples that are not stored,
\* complete without error and leave every entity and every relation unchanged
C7_SilentSkip ==
    /\ (/\ last.op = "deleteObservations"
        /\ \A k \in 1..Len(last.args) : MissingDeletion(last.args[k]))
           => (~last.err /\ Graph = GraphBefore)
    /\ (/\ last.op = "deleteRelations"
        /\ \A k \in 1..Len(last.args) : ~HasRelation(last.pre.relations, last.args[k]))
           => (~last.err /\ Graph = GraphBefore)

\* C7 witness: a deleteObservations on an entity that holds observations,
\* none of them listed, in a graph that holds a relation
C7_Witness ==
    /\ last.op = "deleteObservations"
    /\ Len(last.args) = 1
    /\ HasName(last.pre.entities, last.args[1].entityName)
    /\ Len(ObservationsOf(last.pre.entities, last.args[1].entityName)) > 0
    /\ Len(last.args[1].observations) > 0
    /\ MissingDeletion(last.args[1])
    /\ Len(last.pre.relations) > 0

\* C8: right after createEntities, readGraph shows every entity the call
\* created with the type and the observations that were given; right after
\* addObservations it shows the stored observations followed by the added ones
C8_ReadYourWrites ==
    /\ last.op = "createEntities" =>
          \A k \in 1..Len(last.ret) :
              \E i \in 1..Len(Graph.entities) : Graph.entities[i] = last.ret[k]
    /\ (last.op = "addObservations" /\ ~last.err /\ Len(last.args) = 1) =>
          ObservationsOf(entities, last.args[1].entityName)
            = ObservationsOf(last.pre.entities, last.args[1].entityName)
                \o last.ret[1].addedObservations

\* C9: the Vector Index holds no record of an entity deleteEntities has deleted
C9_NoRecordOfDeletedEntity ==
    \A id \in deleted : id \notin DOMAIN entities_vec

\* C10: an existing entity with a task completed without error has its record
\* (entity_id is the key of entities_vec: a record that is there is there once)
C10_RecordAfterEnrichment ==
    \A i \in 1..Len(entities) :
        entities[i].id \in enriched => entities[i].id \in DOMAIN entities_vec

----------------------------------------------------------------------------
(* Searching and opening                                                   *)

\* a searchNodes of the vector-enabled manager has returned a graph
VectorSearchReturned == mode = "vector" /\ last.op = "searchNodes" /\ ~last.err

\* ids of the index whose row is stored
IndexedStored == {entities[i].id : i \in 1..Len(entities)} \cap DOMAIN entities_vec

\* C11: in vector mode searchNodes(query, k) returns at most k entities, and
\* when the vector index holds no record it returns the empty graph, whatever
\* the store holds.
C11_VectorSearchBound ==
    VectorSearchReturned =>
        /\ Len(last.ret.entities) <= last.args.topK
        /\ DOMAIN entities_vec = {} => last.ret = EmptyGraph

\* C11 witness: a search with k = 1 over an index that holds the records of
\* two stored entities returns one entity
C11_Witness ==
    /\ VectorSearchReturned
    /\ last.args.topK = 1
    /\ Cardinality(IndexedStored) >= 2
    /\ Len(last.ret.entities) = 1

\* the distance between the query of the last search and the record of the
\* entity of that name
DistanceOfName(name) ==
    Distance(generateEmbedding(last.args.query),
             entities_vec[RowOfName(entities, name).id])

\* C12: in vector mode the entities of the result of searchNodes are listed
\* in order of non-decreasing distance between their record in the index and
\* the embedding of the query.
C12_VectorSearchOrder ==
    VectorSearchReturned =>
        \A i, j \in 1..Len(last.ret.entities) :
            i < j => DistanceOfName(last.ret.entities[i].name)
                        <= DistanceOfName(last.ret.entities[j].name)

\* ids of the index whose row has been deleted
Orphans == DOMAIN entities_vec \ {entities[i].id : i \in 1..Len(entities)}

\* C13: every entity searchNodes returns in vector mode is stored at the time
\* of the call and comes with its stored type and observations, also when the
\* index holds records of deleted entities.
C13_IndexNotAuthoritative ==
    VectorSearchReturned =>
        \A k \in 1..Len(last.ret.entities) :
            \E i \in 1..Len(last.pre.entities) :
                last.ret.entities[k] = EntityOfRow(last.pre.entities[i])

\* C13 witness: the index holds the record of a deleted entity, nearer to the
\* query than the record of the stored entity the search returns
C13_Witness ==
    /\ VectorSearchReturned
    /\ \E o \in Orphans :
          \A id \in IndexedStored :
              Distance(generateEmbedding(last.args.query), entities_vec[o])
                  < Distance(generateEmbedding(last.args.query), entities_vec[id])
    /\ Len(last.ret.entities) >= 1

\* names of the entities the last call has returned
ReturnedNames == {last.ret.entities[k].name : k \in 1..Len(last.ret.entities)}

\* the stored relations, as readGraph gives them, with both ends in a set of names
RelationsWithin(names) ==
    SelectSeq(GraphBefore.relations, LAMBDA r : r.from \in names /\ r.to \in names)

\* C14: in both managers the relations searchNodes returns are exactly the
\* stored relations whose from and to are both names of entities the same
\* call returns; with no entity returned, no relation is returned.
C14_SearchRelations ==
    (last.op = "searchNodes" /\ ~last.err) =>
        /\ last.ret.relations = RelationsWithin(ReturnedNames)
        /\ last.ret.entities = <<>> => last.ret.relations = <<>>

\* C14 witness: a search returns an entity and a relation of it, and leaves
\* out a stored relation one end of which is not returned
C14_Witness ==
    /\ last.op = "searchNodes" /\ ~last.err
    /\ Len(last.ret.relations) >= 1
    /\ \E i \in 1..Len(relations) :
          /\ relations[i].to_entity \in ReturnedNames
          /\ relations[i].from_entity \notin ReturnedNames
          /\ HasName(entities, relations[i].from_entity)

\* q is a substring of s, letters compared without case
ContainsNoCase(s, q) ==
    \E i \in 0..(Len(s) - Len(q)) :
        toLowerCase(SubSeq(s, i + 1, i + Len(q))) = toLowerCase(q)

\* the query is a substring of the name, of the type or of one observation
MatchesEntity(e, q) ==
    \/ ContainsNoCase(e.name, q)
    \/ ContainsNoCase(e.entityType, q)
    \/ \E k \in 1..Len(e.observations) : ContainsNoCase(e.observations[k], q)

\* C15: searchNodes of the lexical-only manager returns exactly the entities
\* for which the query, compared without case, is a substring of the name, of
\* the type, or of at least one single observation.
C15_LexicalMatch ==
    (mode = "lexical" /\ last.op = "searchNodes") =>
        last.ret.entities
            = SelectSeq(GraphBefore.entities, LAMBDA e : MatchesEntity(e, last.args.query))

\* two lists hold the same elements the same number of times
SameElements(s, t) ==
    \A x \in Range(s) \cup Range(t) :
        Cardinality({i \in 1..Len(s) : s[i] = x}) = Cardinality({i \in 1..Len(t) : t[i] = x})

\* C16: openNodes(names) returns exactly the stored relations whose from and
\* to are both in names, in whatever order the relations were created and the
\* names are given.
C16_OpenNodesRelations ==
    last.op = "openNodes" =>
        SameElements(last.ret.relations, RelationsWithin(Range(last.args)))

\* C16 witness: openNodes(["B", "A"]) returns two relations while the store
\* holds them in the order A->B, B->B
C16_Witness ==
    /\ last.op = "openNodes"
    /\ last.args = <<sB, sA>>
    /\ Len(last.ret.relations) >= 2
    /\ relations[1].from_entity = sA /\ relations[2].from_entity = sB

\* C17: openNodes(names) returns exactly the stored entities whose name is in
\* names, each once, with the stored type and observations; names of no
\* stored entity are dropped without error; openNodes([]) is the empty graph.
C17_OpenNodesEntities ==
    last.op = "openNodes" =>
        /\ SameElements(last.ret.entities,
                        SelectSeq(GraphBefore.entities, LAMBDA e : e.name \in Range(last.args)))
        /\ ~last.err
        /\ last.args = <<>> => last.ret = EmptyGraph

\* C17 witness: openNodes of a stored name given twice returns the entity
\* once, with its observations
C17_Witness ==
    /\ last.op = "openNodes"
    /\ Len(last.args) = 2 /\ last.args[1] = last.args[2]
    /\ Len(last.ret.entities) = 1
    /\ Len(last.ret.entities[1].observations) >= 2
    /\ Len(entities) >= 2

----------------------------------------------------------------------------
(* Uniqueness                                                              *)

\* C18: in every reachable state no two stored entities have the same name,
\* whatever creations (also of stored names) and deletions came before.
C18_NameUniqueness ==
    \A i, j \in 1..Len(entities) : entities[i].name = entities[j].name => i = j

\* C18 witness: after a deletion, one createEntities names a stored entity
\* and an entity that was deleted, and two entities are stored
C18_Witness ==
    /\ last.op = "createEntities"
    /\ deleted # {}
    /\ \E k \in 1..Len(last.args) : HasName(last.pre.entities, last.args[k].name)
    /\ \E k \in 1..Len(last.args) : ~HasName(last.pre.entities, last.args[k].name)
    /\ Len(entities) = 2

\* the relations a createRelations call is given that were not stored before
\* it, each once, in the order of their first place in the list
RECURSIVE NewInOrder(_, _)
NewInOrder(list, seen) ==
    IF list = <<>> THEN <<>>
    ELSE IF Head(list) \in seen
         THEN NewInOrder(Tail(list), seen)
         ELSE <<Head(list)>> \o NewInOrder(Tail(list), seen \cup {Head(list)})

\* C19: every (from, to, relationType) triple is stored at most once;
\* createRelations leaves a stored triple alone and returns nothing for it,
\* and returns exactly the relations it has created, in the order given, a
\* triple given twice in one list being created and returned once.
C19_RelationUniqueness ==
    /\ \A i, j \in 1..Len(relations) : relations[i] = relations[j] => i = j
    /\ last.op = "createRelations" =>
          /\ last.ret = NewInOrder(last.args, Range(GraphBefore.relations))
          /\ Graph.relations = GraphBefore.relations \o last.ret
          /\ ~last.err

\* C19 witness: with relations stored already, createRelations of a list
\* that gives a new triple twice returns it once
C19_Witness ==
    /\ last.op = "createRelations"
    /\ Len(last.args) = 2 /\ last.args[1] = last.args[2]
    /\ Len(last.ret) = 1
    /\ Len(last.pre.relations) >= 1

----------------------------------------------------------------------------
(* Failure of an embedding task                                            *)

\* C20: when generateEmbedding fails in a background task, the tables stay
\* as the task found them (the row and its observations are kept, no record
\* is written into the index), the task is gone and is not started again, and
\* no error reaches a caller: the only error a call returns is the one of
\* addObservations for an entity that is not stored.
C20_EmbeddingFailureContained ==
    /\ last.op = "taskFailed" =>
          /\ entities = last.pre.entities
          /\ relations = last.pre.relations
          /\ entities_vec = last.pre.entities_vec
          /\ tasks = last.pre.tasks \ {last.args}
          /\ ~last.err
    /\ (last.op # "none" /\ last.err) =>
          /\ last.op = "addObservations"
          /\ \E k \in 1..Len(last.args) :
                ~HasName(last.pre.entities, last.args[k].entityName)

\* C20 witness: the task of a stored entity with observations has failed, and
\* the index holds no record of the entity
C20_Witness ==
    /\ last.op = "taskFailed"
    /\ last.args.kind = "create"
    /\ \E i \in 1..Len(entities) :
          /\ entities[i].id = last.args.id
          /\ entities[i].observations # <<>>
          /\ entities[i].embedding = Placeholder
    /\ last.args.id \notin DOMAIN entities_vec

----------------------------------------------------------------------------
(* A stuck embedding                                                       *)

\* a task of the entity of id StuckId is pending
StuckPending == \E t \in tasks : t.id = StuckId

\* C21: whether or not the embedding task of one entity ever completes,
\* every call that has been made gets its response, and the tasks of the
\* other entities all leave the set of pending tasks.
C21_StuckDoesNotBlock ==
    /\ (last.op # "none") ~> (last.op = "none")
    /\ (\E t \in tasks : t.id # StuckId) ~> (\A t \in tasks : t.id = StuckId)

\* C21 witness: while the first task of the entity of id StuckId is still
\* pending, after a writing call a read has returned, and the task of another
\* entity has written its record into the index
C21_Witness ==
    /\ StuckPending
    /\ StuckId \notin DOMAIN entities_vec
    /\ last.op = "openNodes"
    /\ calls >= 2
    /\ \E id \in DOMAIN entities_vec : id # StuckId /\ id \in enriched

----------------------------------------------------------------------------
(* Frame of addObservations and deleteObservations                         *)

\* every target of the last addObservations names a stored entity and gives
\* only strings that are among the observations of that entity
NothingNew ==
    /\ last.op = "addObservations"
    /\ \A k \in 1..Len(last.args) :
          /\ HasName(last.pre.entities, last.args[k].entityName)
          /\ \A n \in 1..Len(last.args[k].contents) :
                Includes(ObservationsOf(last.pre.entities, last.args[k].entityName),
                         last.args[k].contents[n])

\* C22: when every string of contents is already among the observations of
\* the entity, addObservations returns an empty addedObservations for the
\* target, leaves the stored observations as they were and starts no
\* embedding task.
C22_AddNothingNew ==
    NothingNew =>
        /\ ~last.err
        /\ Len(last.ret) = Len(last.args)
        /\ \A k \in 1..Len(last.args) :
              last.ret[k] = [entityName |-> last.args[k].entityName,
                             addedObservations |-> <<>>]
        /\ entities = last.pre.entities
        /\ tasks = last.pre.tasks

\* C22 witness: in the vector-enabled manager, an addObservations that gives
\* two strings, both among the observations of the entity
C22_Witness ==
    /\ NothingNew
    /\ mode = "vector"
    /\ Len(last.args) >= 1
    /\ Len(last.args[1].contents) >= 2

\* the embedding column of the rows, by id
EmbeddingsOf(ents) == {<<ents[i].id, ents[i].embedding>> : i \in 1..Len(ents)}

\* C23: deleteObservations changes neither the vector index nor the
\* embedding stored on any row, and starts no embedding task: the record of
\* the entity keeps the value it had before the deletion.
C23_DeleteObservationsKeepsVectors ==
    last.op = "deleteObservations" =>
        /\ entities_vec = last.pre.entities_vec
        /\ EmbeddingsOf(entities) = EmbeddingsOf(last.pre.entities)
        /\ tasks = last.pre.tasks

\* C23 witness: deleteObservations has removed an observation of an entity
\* whose record is in the index; the record is still the embedding of the
\* text with the removed observation
C23_Witness ==
    /\ last.op = "deleteObservations"
    /\ mode = "vector"
    /\ \E i \in 1..Len(entities) :
          /\ entities[i].observations # last.pre.entities[i].observations
          /\ entities[i].id \in DOMAIN entities_vec
          /\ entities_vec[entities[i].id]
               = generateEmbedding(CombinedText(entities[i].name,
                    DecodeObservations(last.pre.entities[i].observations)))
          /\ entities[i].embedding = entities_vec[entities[i].id]

----------------------------------------------------------------------------
(* Result of createEntities                                                *)

\* the entities of a list whose name is not in `seen`, the first of each name
\* only, in the order of the list
RECURSIVE FirstOfNewNames(_, _)
FirstOfNewNames(list, seen) ==
    IF list = <<>> THEN <<>>
    ELSE IF Head(list).name \in seen
         THEN FirstOfNewNames(Tail(list), seen)
         ELSE <<Head(list)>> \o FirstOfNewNames(Tail(list), seen \cup {Head(list).name})

\* C24: createEntities returns exactly the given entities it has created, in
\* the order given; of a name given twice only the first entity is created
\* and returned; the vector-enabled manager starts one embedding task for
\* each returned entity and none for the others, the lexical-only one none.
C24_CreateEntitiesResult ==
    last.op = "createEntities" =>
        /\ last.ret = FirstOfNewNames(last.args,
                        {last.pre.entities[i].name : i \in 1..Len(last.pre.entities)})
        /\ Len(entities) = Len(last.pre.entities) + Len(last.ret)
        /\ last.pre.tasks \subseteq tasks
        /\ IF mode = "vector"
           THEN /\ Cardinality(tasks \ last.pre.tasks) = Len(last.ret)
                /\ \A k \in 1..Len(last.ret) :
                      [kind |-> "create",
                       id |-> RowOfName(entities, last.ret[k].name).id,
                       text |-> CombinedText(last.ret[k].name, last.ret[k].observations)]
                          \in tasks \ last.pre.tasks
           ELSE tasks = last.pre.tasks

\* C24 witness: the vector-enabled createEntities is given one new name twice,
\* with two types, and returns the first entity
C24_Witness ==
    /\ last.op = "createEntities"
    /\ mode = "vector"
    /\ Len(last.args) = 2
    /\ last.args[1].name = last.args[2].name
    /\ last.args[1].entityType # last.args[2].entityType
    /\ last.ret = <<last.args[1]>>
    /\ Cardinality(tasks) >= 2

----------------------------------------------------------------------------
(* Failure of the storage during readGraph                                 *)

\* C25: when the read of the entities or the read of the relations fails
\* during readGraph, readGraph raises no error and returns the empty graph,
\* never the entities without the relations.
C25_FailSafeRead ==
    (last.op = "readGraph" /\ last.args # <<>>) =>
        /\ ~last.err
        /\ last.ret = EmptyGraph

\* C25 witness: the read of the relations fails in a readGraph over a store
\* that holds entities and relations
C25_Witness ==
    /\ last.op = "readGraph"
    /\ last.args = <<"relations">>
    /\ Len(entities) >= 1
    /\ Len(relations) >= 1

----------------------------------------------------------------------------
(* Encoding of the observations                                            *)

\* the observations openNodes returns for one name
OpenedObservations(name) ==
    LET g == openNodes(entities, relations, <<name>>)
    IN  g.entities[1].observations

\* C26: readGraph and openNodes return an entity that createEntities has
\* created with the observation list it was given, element for element, for
\* every list of strings; and after addObservations the list read back is the
\* one read before followed by the returned addedObservations.
C26_EncodingRoundTrip ==
    /\ last.op = "createEntities" =>
          \A k \in 1..Len(last.ret) :
              /\ ObservationsOf(entities, last.ret[k].name) = last.ret[k].observations
              /\ OpenedObservations(last.ret[k].name) = last.ret[k].observations
    /\ (last.op = "addObservations" /\ ~last.err) =>
          \A k \in 1..Len(last.ret) :
              (\A j \in 1..Len(last.ret) : last.ret[j].entityName = last.ret[k].entityName => j = k)
                 => OpenedObservations(last.ret[k].entityName)
                       = ObservationsOf(last.pre.entities, last.ret[k].entityName)
                            \o last.ret[k].addedObservations

----------------------------------------------------------------------------
(* Embedding tasks that complete out of order                              *)

\* the observations column of the rows, by id
StoredObservations(ents) == {<<ents[i].id, ents[i].observations>> : i \in 1..Len(ents)}

CurrentText(id) ==
    LET row == entities[CHOOSE i \in 1..Len(entities) : entities[i].id = id]
    IN  CombinedText(row.name, DecodeObservations(row.observations))

----------------------------------------------------------------------------
(* deleteObservations                                                      *)

\* names the last deleteObservations call was given
DeletionNames == {last.args[k].entityName : k \in 1..Len(last.args)}

\* C28: for a stored entity, deleteObservations removes every occurrence of
\* each listed string from the observations of the entity and keeps the
\* other observations in their order; the names and types of the entities,
\* the entities that are not named and the relations stay as they were.
C28_ExactRemoval ==
    last.op = "deleteObservations" =>
        /\ ~last.err
        /\ Graph.relations = GraphBefore.relations
        /\ Len(Graph.entities) = Len(GraphBefore.entities)
        /\ \A i \in 1..Len(Graph.entities) :
              /\ Graph.entities[i].name = GraphBefore.entities[i].name
              /\ Graph.entities[i].entityType = GraphBefore.entities[i].entityType
              /\ Graph.entities[i].name \notin DeletionNames
                    => Graph.entities[i] = GraphBefore.entities[i]
        /\ \A k \in 1..Len(last.args) :
              (/\ HasName(last.pre.entities, last.args[k].entityName)
               /\ \A j \in 1..Len(last.args) :
                     last.args[j].entityName = last.args[k].entityName => j = k)
                 => ObservationsOf(entities, last.args[k].entityName)
                       = FilterNotIn(ObservationsOf(last.pre.entities, last.args[k].entityName),
                                     last.args[k].observations)

----------------------------------------------------------------------------
(* Relations and the entities they name                                    *)

\* a relation one end of which names no stored entity
Dangling(ents, r) == ~HasName(ents, r.from) \/ ~HasName(ents, r.to)

\* C29: createRelations creates and returns a relation whose from or to
\* names no stored entity, without error, and readGraph returns it; no call
\* fails because a stored relation names a missing entity (the one error a
\* call returns is that of addObservations for a missing target).
C29_SoftReferentialIntegrity ==
    /\ last.op = "createRelations" =>
          /\ ~last.err
          /\ \A k \in 1..Len(last.args) :
                (/\ Dangling(last.pre.entities, last.args[k])
                 /\ ~HasRelation(last.pre.relations, last.args[k]))
                   => /\ Includes(last.ret, last.args[k])
                      /\ Includes(Graph.relations, last.args[k])
    /\ (/\ last.op \in {"createEntities", "createRelations", "addObservations",
                        "deleteEntities", "deleteObservations", "deleteRelations",
                        "readGraph"}
        /\ \E i \in 1..Len(GraphBefore.relations) :
              Dangling(last.pre.entities, GraphBefore.relations[i]))
          => (last.err =>
                /\ last.op = "addObservations"
                /\ \E k \in 1..Len(last.args) :
                      ~HasName(last.pre.entities, last.args[k].entityName))

\* C29 witness: createRelations on a store without the entity B is given
\* A->B and returns it, and the graph holds it
C29_Witness ==
    /\ last.op = "createRelations"
    /\ HasName(entities, sA) /\ ~HasName(entities, sB)
    /\ \E k \in 1..Len(last.ret) :
          /\ last.ret[k].from = sA /\ last.ret[k].to = sB
          /\ Includes(Graph.relations, last.ret[k])

----------------------------------------------------------------------------
(* Content of the records of the index                                     *)

\* the tasks the last call has started
StartedTasks == tasks \ last.pre.tasks

\* C30: the record of an entity in the index is the embedding of
\* name + " " + (observations joined by " ") for the observations the same
\* entity held right after its creation or right after an addObservations:
\* every task is started with the id of its entity and the text of the
\* observations the entity holds when the call returns, and a record is only
\* ever written by a task of its own id, with the text of that task.
C30_RecordContent ==
    /\ [](last.op \in {"createEntities", "addObservations"} =>
            \A t \in StartedTasks :
                \E i \in 1..Len(entities) :
                    /\ entities[i].id = t.id
                    /\ t.text = CombinedText(entities[i].name,
                                             DecodeObservations(entities[i].observations)))
    /\ [][\A id \in DOMAIN entities_vec' :
            \/ id \in DOMAIN entities_vec /\ entities_vec'[id] = entities_vec[id]
            \/ \E t \in tasks \ tasks' :
                  t.id = id /\ entities_vec'[id] = generateEmbedding(t.text)]_vars

----------------------------------------------------------------------------
(* C31 .. C36                                                              *)

\* the ids a behaviour can give out: a call creates at most two entities
Ids == 1..(2 * MaxCalls)

Exists(id) == \E i \in 1..Len(entities) : entities[i].id = id

Indexed(id) == id \in DOMAIN entities_vec

\* C31: eventual searchability.  In the vector-enabled manager, when no
\* embedding task fails and every started task is run to its end (FairSpec),
\* every entity that is created and never deleted afterwards has from some
\* point on an EmbeddingRecord in the Vector Index, and keeps it.
C31_EventualSearchability ==
    \A id \in Ids :
        (mode = "vector" /\ [](last.op # "taskFailed") /\ <>[]Exists(id))
            => <>[]Indexed(id)

\* an entity of the vector-enabled manager whose task has written its record,
\* with no task left and no call left to make
C31_Witness ==
    /\ mode = "vector"
    /\ tasks = {}
    /\ calls = MaxCalls
    /\ last.op = "none"
    /\ \E id \in Ids : Exists(id) /\ Indexed(id) /\ id \in enriched

\* the columns of the entities table that no task writes
PrimaryOf(ents) ==
    [i \in 1..Len(ents) |->
        [id |-> ents[i].id, name |-> ents[i].name,
         entityType |-> ents[i].entityType, observations |-> ents[i].observations]]

\* a step in which a background task ends: calls only add tasks
TaskEnds == tasks' # tasks /\ tasks' \subseteq tasks

\* C32: background tasks leave primary data alone.  A step in which a task
\* ends, with its embedding or with an error, changes no entity's name,
\* entityType or observations, adds or removes no entity and changes no
\* relation; only the embedding column and the Vector Index may change.
C32_TasksLeavePrimaryData ==
    [][TaskEnds =>
          /\ PrimaryOf(entities') = PrimaryOf(entities)
          /\ relations' = relations
          /\ nextId' = nextId]_vars

\* a task has just failed after another one has written its embedding, in a
\* store that holds entities and relations
C32_Witness ==
    /\ last.op = "taskFailed"
    /\ \E id \in enriched : Exists(id) /\ Indexed(id)
    /\ Exists(last.args.id)
    /\ relations # <<>>

\* the manager that is not running
OtherMode == IF mode = "vector" THEN "lexical" ELSE "vector"

\* the tables as the last call found them, for the other manager to run the
\* same call on; createEntities is the only call that gives out ids, one for
\* each entity it returns
PreDb ==
    [entities |-> last.pre.entities, relations |-> last.pre.relations,
     entities_vec |-> last.pre.entities_vec, tasks |-> last.pre.tasks,
     nextId |-> IF last.op = "createEntities" THEN nextId - Len(last.ret) ELSE nextId,
     ret |-> <<>>, err |-> FALSE]

\* what the other manager makes of the last call.  createRelations,
\* deleteObservations, deleteRelations, readGraph and openNodes are the same
\* text in both classes and are not run twice.
OtherOutcome ==
    IF last.op = "createEntities"
    THEN createEntitiesLoop(PreDb, last.args, OtherMode)
    ELSE IF last.op = "addObservations"
    THEN IF OtherMode = "vector" THEN addObservationsMap(PreDb, last.args)
                                 ELSE addObservationsMapLexical(PreDb, last.args)
    ELSE deleteEntitiesLoop(PreDb, last.args, OtherMode)

\* C33: the two implementations agree on primary data.  Whenever one manager
\* has run createEntities, addObservations or deleteEntities, the other
\* manager, run on the same tables with the same arguments, fails or succeeds
\* alike, returns the same result and leaves the same entities and relations.
C33_ImplementationsAgree ==
    last.op \in {"createEntities", "addObservations", "deleteEntities"} =>
        LET other == OtherOutcome
        IN  /\ other.err = last.err
            /\ (IF other.err THEN <<>> ELSE other.ret) = last.ret
            /\ PrimaryOf(other.entities) = PrimaryOf(entities)
            /\ other.relations = relations

\* the same agreement for the calls that cannot fail: it holds
AgreeOnCreateAndDelete ==
    last.op \in {"createEntities", "deleteEntities"} =>
        LET other == OtherOutcome
        IN  /\ other.err = last.err
            /\ other.ret = last.ret
            /\ PrimaryOf(other.entities) = PrimaryOf(entities)
            /\ other.relations = relations

\* the same agreement for the addObservations calls that succeed: it holds
AgreeOnAddSucceeded ==
    (last.op = "addObservations" /\ ~last.err) =>
        LET other == OtherOutcome
        IN  /\ ~other.err
            /\ other.ret = last.ret
            /\ PrimaryOf(other.entities) = PrimaryOf(entities)

\* the records of the index that belong to a stored entity
RecordsOf(ents, vec) ==
    {<<ents[i].id, vec[ents[i].id]>> : i \in {j \in 1..Len(ents) : ents[j].id \in DOMAIN vec}}

\* C34: isolation of a re-created entity.  The task of an entity that has
\* been deleted, when it ends, changes the embedding and the EmbeddingRecord
\* of no stored entity, and so not those of an entity created again under the
\* same name; a deleted id is given to no later row.
C34_RecreatedEntityIsolated ==
    /\ [](\A id \in deleted : ~Exists(id) /\ id < nextId)
    /\ [][\A t \in tasks \ tasks' :
            t.id \in deleted =>
                /\ EmbeddingsOf(entities') = EmbeddingsOf(entities)
                /\ RecordsOf(entities', entities_vec') = RecordsOf(entities, entities_vec)]_vars

\* the task of a deleted entity has written its record into the index while
\* an entity created later under the same name is stored, still with its
\* placeholder and without a record
C34_Witness ==
    \E d \in deleted : \E i \in 1..Len(entities) :
        /\ Indexed(d)
        /\ IsPrefix(entities[i].name \o SPACE, entities_vec[d].of)
        /\ entities[i].id > d
        /\ entities[i].embedding = Placeholder
        /\ ~Indexed(entities[i].id)

\* C35: closed result of openNodes.  Every relation openNodes returns has its
\* from and its to among the names of the entities the same call returns.
C35_OpenNodesClosed ==
    last.op = "openNodes" =>
        \A k \in 1..Len(last.ret.relations) :
            /\ last.ret.relations[k].from \in ReturnedNames
            /\ last.ret.relations[k].to \in ReturnedNames

\* the same for the calls made while every stored relation has both its ends
\* stored: it holds
OpenNodesClosedWithoutDangling ==
    (/\ last.op = "openNodes"
     /\ \A k \in 1..Len(GraphBefore.relations) :
            ~Dangling(last.pre.entities, GraphBefore.relations[k])) =>
        \A k \in 1..Len(last.ret.relations) :
            /\ last.ret.relations[k].from \in ReturnedNames
            /\ last.ret.relations[k].to \in ReturnedNames

\* C36: row embedding and index agree.  In every reachable state, every
\* stored entity that has an EmbeddingRecord in the Vector Index carries on
\* its row the embedding that is the record, in whatever order the tasks of
\* createEntities and addObservations have ended.
C36_RowAndIndexAgree ==
    \A i \in 1..Len(entities) :
        Indexed(entities[i].id) => entities[i].embedding = entities_vec[entities[i].id]

\* an indexed entity whose observations have grown since the text of its
\* record was taken, with no task of it left: its addObservations task has
\* ended before its createEntities task (or has failed), and row and record
\* hold the same older embedding
C36_Witness ==
    \E i \in 1..Len(entities) :
        /\ Indexed(entities[i].id)
        /\ entities[i].embedding = entities_vec[entities[i].id]
        /\ ~entities[i].embedding.zero
        /\ Len(entities[i].embedding.of) < Len(CurrentText(entities[i].id))
        /\ IsPrefix(entities[i].embedding.of, CurrentText(entities[i].id))
        /\ \A t \in tasks : t.id # entities[i].id
        /\ last.op = "none"

====
